---------------------------- MODULE Spec2Model ----------------------------
(***************************************************************************)
(* Model of the two harvesting scripts of crautos_analisis_datos:          *)
(*   src/scraper_car_details.py            (ConcurrencyManager, the fetch  *)
(*                                          phase of main)                 *)
(*   src/data_scrapper/01_scraper_pagination_list.py  (listing harvest)    *)
(*                                                                         *)
(* Three groups of variables, one per component.  Each specification       *)
(* below moves one component and leaves the others at their initial value. *)
(***************************************************************************)
EXTENDS Integers, Sequences, FiniteSets, TLC

VARIABLES
    \* ---- ConcurrencyManager (scraper_car_details.py:159-273)
    target_concurrency,   \* self.target_concurrency
    min,                  \* self.min
    max,                  \* self.max
    success_count,        \* self._success_count
    error_count,          \* self._error_count
    elapsed,              \* time.monotonic() - self._last_check_time
    throughput_history,   \* self.throughput_history, deque(maxlen=30)
    lock,                 \* self._lock: "free" or "held"
    decision,             \* record of the last adjust_concurrency call (ghost)
    \* ---- fetch phase (scraper_car_details.py:431-530)
    car_id,               \* get_car_id_from_url of each input URL, 0 for None
    initial_store,        \* the Item Store when main starts
    store,                \* the Item Store: id -> "absent", "partial", "complete"
    pc,                   \* where the task of each URL stands
    attempt,              \* the loop variable of scrape_single_url
    page,                 \* the local page: "none", "open", "closed"
    sem_value,            \* free permits of the semaphore
    done_queue,           \* as_completed: finished tasks main has not awaited yet
    completed_count,      \* main's completed_count
    progress,             \* the counts _log_progress_and_estimate_time was called with (ghost)
    consumed,             \* the reports read by the decisions of the run (ghost)
    main_state,           \* "running", "done", "aborting", "aborted"
    log,                  \* per URL: cycles started, reports made (ghost)
    writes,               \* per id: save_data_to_json calls of this run (ghost)
    \* ---- listing script (01_scraper_pagination_list.py)
    site_pages,           \* number of listing pages the site has
    urls_file,            \* URLS_FILE: [exists, data: set of URLs]
    failed_file,          \* FAILED_URLS_FILE: [exists, data: sequence of page
                          \* numbers n, each standing for "PAGE::n"]
    view,                 \* listing page the session shows, 0 for none
    s_pc,                 \* where main of the listing script stands
    runs,                 \* runs of the script started so far
    page_num,             \* ensure_url_list_exists: loop variable
    last_page_number,     \* ensure_url_list_exists: last_page_number
    detail_urls,          \* ensure_url_list_exists: detail_urls
    failed_items,         \* retry_failed_pages: failed_items still to retry
    existing_urls,        \* retry_failed_pages: existing_urls
    still_failed,         \* retry_failed_pages: still_failed
    newly_scraped_urls,   \* retry_failed_pages: newly_scraped_urls
    call                  \* the running or last call of either function:
                          \* files on entry, network calls issued, whether
                          \* the base state was reached, and the pairs
                          \* <<page asked for, view read>> of the pages whose
                          \* links were all read, the links read on a page
                          \* that was then given up; for a harvest call,
                          \* the markers the retry pass before it resolved
                          \* and the links it added (ghost)

ctl_vars == <<target_concurrency, min, max, success_count, error_count,
              elapsed, throughput_history, lock, decision>>

fetch_vars == <<car_id, initial_store, store, pc, attempt, page, sem_value,
                done_queue, completed_count, progress, consumed, main_state, log,
                writes>>

list_vars == <<site_pages, urls_file, failed_file, view, s_pc, runs, page_num,
               last_page_number, detail_urls, failed_items, existing_urls,
               still_failed, newly_scraped_urls, call>>

vars == <<ctl_vars, fetch_vars, list_vars>>

-----------------------------------------------------------------------------
(* Bounds of the model *)

\* largest concurrency value a configuration may name
MaxConc == 3
\* longest window of SpecWindow, in clock steps of AdjusterSleep
MaxTicks == 5
\* reports per window in SpecCtl
MaxSuccess == 1
MaxError == 1
\* samples a SpecCtl run may append to the history
MaxSamples == 5
\* reports per window in SpecWindow
WinSuccess == 9
WinError == 2
\* SpecConv: the throughput peak and the half width of [min, max] around it
Peak == 12
ConvSpan == 2

\* fetch phase: input URLs, distinct ids, largest max_concurrency
NumUrls == 2
NumIds == 2
MaxSlots == 2

\* line 518: the progress line is logged every 10 completed items
ProgressEvery == 10

\* line 466: the seconds of the backoff sleep, 3 + attempt * 2
BackoffBase == 3
BackoffStep == 2

\* lines 543-560: the defaults of --initial, --min and --max
DefaultInitial == 8
DefaultMin == 3
DefaultMax == 30

\* SpecHist: samples in the history, successes of a window
HistSamples == 5
HistSuccess == 2

\* listing script: pages of the site, runs of the script
MaxPages == 3
MaxRuns == 3

(* Program constants *)
TRIES == 3
DwellTime == 20
AdjusterSleep == 5
HistoryMaxLen == 30
MinSamples == 5

-----------------------------------------------------------------------------
(* Arithmetic helpers *)

MinOf(a, b) == IF a <= b THEN a ELSE b
MaxOf(a, b) == IF a >= b THEN a ELSE b

RECURSIVE Gcd(_, _)
Gcd(a, b) == IF b = 0 THEN a ELSE Gcd(b, a % b)

Lcm(a, b) == (a * b) \div Gcd(a, b)

RECURSIVE LcmOf(_)
LcmOf(S) ==
    IF S = {} THEN 1
    ELSE LET x == CHOOSE y \in S : TRUE IN Lcm(x, LcmOf(S \ {x}))

\* the values elapsed can have when a decision passes the dwell gate
DecisionElapsed ==
    {DwellTime} \cup {k * AdjusterSleep : k \in {j \in 1..MaxTicks : j * AdjusterSleep >= DwellTime}}

\* throughputs are the rationals successes/elapsed; they are kept as the
\* integer successes * TScale / elapsed, exact for every elapsed of the model
TScale == LcmOf(DecisionElapsed)

-----------------------------------------------------------------------------
(* ConcurrencyManager *)

\* a threshold test that also fires at a rate of exactly 0.1
ErrorRateAtLeast(s, e) == e * 10 >= s + e

\* line 193/204: error_rate = errors / total; error_rate > 0.1.
\* (e / (s + e) > 0.1 in doubles equals 10 e > s + e for all counts < 200.)
ErrorRateHigh(s, e) == e * 10 > s + e

\* line 205: max(self.min, int(self.target_concurrency * 0.7)).
\* int() of the double product equals 7 t div 10 for 0 <= t < 90.
Contract(t, lo) == MaxOf(lo, (t * 7) \div 10)

\* a step up that forgets the upper limit
StepUpUncapped(t, hi) == t + 1

\* lines 222, 248, 262: min(self.max, self.target_concurrency + 1)
StepUp(t, hi) == MinOf(hi, t + 1)

\* a step down of two levels
StepDownTwice(t, lo) == MaxOf(lo, t - 2)

\* line 255: max(self.min, self.target_concurrency - 1)
StepDown(t, lo) == MaxOf(lo, t - 1)

\* line 194: current_throughput = self._success_count / elapsed
Throughput(s, el) == (s * TScale) \div el

\* an append to a list without a capacity
DequeAppendUnbounded(h, x) == Append(h, x)

\* line 171, 215: deque(maxlen=30).append drops the oldest sample when full
DequeAppend(h, x) ==
    IF Len(h) < HistoryMaxLen THEN Append(h, x) ELSE Append(Tail(h), x)

\* lines 227-231: perf_by_concurrency, the samples of one concurrency level
RECURSIVE SumOf(_, _)
SumOf(h, c) ==
    IF h = <<>> THEN 0
    ELSE (IF Head(h)[1] = c THEN Head(h)[2] ELSE 0) + SumOf(Tail(h), c)

RECURSIVE CountOf(_, _)
CountOf(h, c) ==
    IF h = <<>> THEN 0
    ELSE (IF Head(h)[1] = c THEN 1 ELSE 0) + CountOf(Tail(h), c)

Levels(h) == {h[i][1] : i \in 1..Len(h)}

\* lines 233-236: avg_perf[c] = sum / len, compared exactly:
\* avg(c) >= avg(d)  iff  sum(c) * len(d) >= sum(d) * len(c)
AvgAtLeast(h, c, d) == SumOf(h, c) * CountOf(h, d) >= SumOf(h, d) * CountOf(h, c)

\* line 243: best_concurrency = max(avg_perf, key=avg_perf.get).
\* Levels whose exact averages are equal may differ in the last bit of the
\* double average, so a tie is broken either way.
BestLevels(h) == {c \in Levels(h) : \A d \in Levels(h) : AvgAtLeast(h, c, d)}

\* a rule that stays on the best level once it is reached
HillClimbStaysAtBest(t, best, lo, hi) ==
    IF t < best THEN StepUp(t, hi)
    ELSE IF t > best THEN StepDown(t, lo)
    ELSE t

\* lines 246-266
HillClimb(t, best, lo, hi) ==
    IF t < best THEN StepUp(t, hi)
    ELSE IF t > best THEN StepDown(t, lo)
    ELSE StepUp(t, hi)

Decision(path) ==
    [path |-> path, target |-> target_concurrency, successes |-> success_count,
     errors |-> error_count, elapsed |-> elapsed,
     samples |-> Len(throughput_history)]

\* a reset that leaves the error counter as it is
reset_counters_but_errors ==
    /\ success_count' = 0
    /\ elapsed' = 0
    /\ UNCHANGED error_count

\* a gate that opens one adjuster period early
DwellGateShort(el) == el < DwellTime - AdjusterSleep

\* line 185: if elapsed < 20: return
DwellGate(el) == el < DwellTime

\* a test that never finds the window empty
ZeroTrafficNever(s, e) == FALSE

\* lines 188-189: total_requests == 0
ZeroTraffic(s, e) == s + e = 0

\* lines 270-273
reset_counters ==
    /\ success_count' = 0
    /\ error_count' = 0
    /\ elapsed' = 0

\* line 174: asyncio.Lock.acquire on a free lock returns without suspending
Acquire(l) == "held"

\* a critical section that is left with the lock held
ReleaseNever(l) == l

\* lines 175, 179, 268: __aexit__ releases the lock when the body, which
\* awaits nothing, has run
Release(l) == "free"

\* lines 173-175
record_success ==
    /\ lock = "free"
    /\ lock' = Release(Acquire(lock))
    /\ success_count' = success_count + 1
    /\ UNCHANGED <<target_concurrency, min, max, error_count, elapsed,
                   throughput_history, decision>>

\* lines 177-179
record_error ==
    /\ lock = "free"
    /\ lock' = Release(Acquire(lock))
    /\ error_count' = error_count + 1
    /\ UNCHANGED <<target_concurrency, min, max, success_count, elapsed,
                   throughput_history, decision>>

ProbePhaseShort(h) == Len(h) < MinSamples - 1

\* line 220, read after the append of line 217
ProbePhase(h) == Len(h) < MinSamples

ContractionHistoryAppends(h, sample) == DequeAppend(h, sample)

\* lines 203-212: the contraction branch returns before the append of lines
\* 215-217, the sample of the window is dropped
ContractionHistory(h, sample) == h

\* lines 181-268, one critical section
adjust_concurrency ==
    /\ lock = "free"
    /\ lock' = Release(Acquire(lock))
    /\ UNCHANGED <<min, max>>
    /\ IF DwellGate(elapsed) THEN
           /\ decision' = [path |-> "gate", target |-> target_concurrency,
                           successes |-> 0, errors |-> 0, elapsed |-> 0,
                           samples |-> Len(throughput_history)]
           /\ UNCHANGED <<target_concurrency, success_count, error_count,
                          elapsed, throughput_history>>
       ELSE IF ZeroTraffic(success_count, error_count) THEN
           /\ decision' = Decision("idle")
           /\ reset_counters
           /\ UNCHANGED <<target_concurrency, throughput_history>>
       ELSE IF ErrorRateHigh(success_count, error_count) THEN
           /\ decision' = Decision("contract")
           /\ target_concurrency' = Contract(target_concurrency, min)
           /\ reset_counters
           /\ throughput_history' =
                  ContractionHistory(throughput_history,
                                     <<target_concurrency,
                                       Throughput(success_count, elapsed)>>)
       ELSE
           LET h == DequeAppend(throughput_history,
                                <<target_concurrency,
                                  Throughput(success_count, elapsed)>>)
           IN  /\ throughput_history' = h
               /\ reset_counters
               /\ IF ProbePhase(h) THEN
                      /\ decision' = Decision("probe")
                      /\ target_concurrency' = StepUp(target_concurrency, max)
                  ELSE
                      \E best \in BestLevels(h) :
                          /\ decision' = Decision("climb")
                          /\ target_concurrency' =
                                 HillClimb(target_concurrency, best, min, max)

\* the monotonic clock advances by d between two reads of it
Tick(d) ==
    /\ elapsed' = elapsed + d
    /\ UNCHANGED <<target_concurrency, min, max, success_count, error_count,
                   throughput_history, lock, decision>>

\* lines 162-171, for a configuration with min <= initial <= max
ManagerInit(initial, min_val, max_val) ==
    /\ target_concurrency = initial
    /\ min = min_val
    /\ max = max_val
    /\ success_count = 0
    /\ error_count = 0
    /\ elapsed = 0
    /\ throughput_history = <<>>
    /\ lock = "free"
    /\ decision = [path |-> "none", target |-> initial, successes |-> 0,
                   errors |-> 0, elapsed |-> 0, samples |-> 0]

Configs ==
    {c \in (1..MaxConc) \X (1..MaxConc) \X (1..MaxConc) : c[2] <= c[1] /\ c[1] <= c[3]}

-----------------------------------------------------------------------------
(* Fetch phase: main and scrape_single_url *)

Urls == 1..NumUrls
Ids == 1..NumIds

\* a filter that keeps every URL
ToProcessAll(u, st) == TRUE

\* lines 481-487: the URLs main keeps are those whose record file is absent
\* (the file name of a URL without id is None.json, which never exists)
ToProcess(u, st) == car_id[u] = 0 \/ st[car_id[u]] = "absent"

Remaining == Cardinality({u \in Urls : ToProcess(u, initial_store)})

\* tasks inside "async with semaphore" (line 435)
Active == {"fetching", "backoff", "closing_retry", "closing_exit", "polite"}
Terminal == {"saved", "abandoned", "invalid", "raised", "cancelled"}

Holding == Cardinality({u \in Urls : pc[u] \in Active})

\* an adjuster that nothing cancels
AliveForever == TRUE

\* lines 508, 523: the adjuster task lives from its creation until main
\* cancels it after the loop, or until the run is torn down after an abort
Alive == main_state \in {"running", "aborting"}

\* lines 472-513: the state when the tasks have been created
FetchInit(initial, min_val, max_val) ==
    /\ ManagerInit(initial, min_val, max_val)
    /\ car_id \in {f \in [Urls -> 0..NumIds] :
                      \A u, v \in Urls : u < v => f[u] <= f[v]}
    /\ initial_store \in [Ids -> {"absent", "complete"}]
    /\ store = initial_store
    /\ pc = [u \in Urls |->
                IF ToProcess(u, initial_store) THEN "queued" ELSE "skipped"]
    /\ attempt = [u \in Urls |-> 0]
    /\ page = [u \in Urls |-> "none"]
    /\ sem_value = max_val
    /\ done_queue = <<>>
    /\ completed_count = 0
    /\ progress = <<>>
    /\ consumed = 0
    /\ main_state = IF \E u \in Urls : ToProcess(u, initial_store)
                    THEN "running" ELSE "done"
    /\ log = [u \in Urls |-> [attempts |-> 0, ok |-> 0, err |-> 0,
                             slept |-> <<>>]]
    /\ writes = [i \in Ids |-> 0]

\* the task leaves "async with semaphore" and completes its future
Finish(u, state) ==
    /\ pc' = [pc EXCEPT ![u] = state]
    /\ sem_value' = sem_value + 1
    /\ done_queue' = Append(done_queue, u)

\* line 443-445: the next cycle starts
StartCycle(u, a) ==
    /\ pc' = [pc EXCEPT ![u] = "fetching"]
    /\ attempt' = [attempt EXCEPT ![u] = a]
    /\ log' = [log EXCEPT ![u].attempts = @ + 1]

\* lines 435-445: a permit is free; a URL without id reports one error and
\* returns, any other starts its first cycle
Admit(u) ==
    /\ Alive
    /\ pc[u] = "queued"
    /\ sem_value > 0
    /\ IF car_id[u] = 0 THEN
           /\ record_error
           /\ pc' = [pc EXCEPT ![u] = "invalid"]
           /\ done_queue' = Append(done_queue, u)
           /\ log' = [log EXCEPT ![u].err = @ + 1]
           /\ UNCHANGED <<sem_value, attempt>>
       ELSE
           /\ sem_value' = sem_value - 1
           /\ StartCycle(u, 0)
           /\ UNCHANGED <<ctl_vars, done_queue>>
    /\ UNCHANGED <<car_id, initial_store, store, page, completed_count, progress, consumed,
                   main_state, writes>>
    /\ UNCHANGED list_vars

\* lines 445-455: the cycle runs to its end without an exception: the record
\* is written, the success reported, the politeness sleep started
CycleSucceeds(u) ==
    /\ Alive
    /\ pc[u] = "fetching"
    /\ page' = [page EXCEPT ![u] = "open"]
    /\ store' = [store EXCEPT ![car_id[u]] = "complete"]
    /\ writes' = [writes EXCEPT ![car_id[u]] = @ + 1]
    /\ record_success
    /\ log' = [log EXCEPT ![u].ok = @ + 1]
    /\ pc' = [pc EXCEPT ![u] = "polite"]
    /\ UNCHANGED <<car_id, initial_store, attempt, sem_value, done_queue,
                   completed_count, progress, consumed, main_state>>
    /\ UNCHANGED list_vars

\* the points of a cycle where an exception is raised: in new_page (the
\* local page keeps its old value), between new_page and the end of
\* scrape_detail_page, and in save_data_to_json after open() has created or
\* truncated the file
FailureKinds == {"new_page", "fetch", "write"}

\* a backoff of the same length after every failed cycle
BackoffFlat(a) == BackoffBase

\* line 466: asyncio.sleep(3 + attempt * 2)
Backoff(a) == BackoffBase + a * BackoffStep

\* lines 456-469: the except clause, then the finally clause
CycleFails(u, kind) ==
    /\ Alive
    /\ pc[u] = "fetching"
    /\ page' = [page EXCEPT ![u] = IF kind = "new_page" THEN @ ELSE "open"]
    /\ IF kind = "write" THEN
           /\ store' = [store EXCEPT ![car_id[u]] = "partial"]
           /\ writes' = [writes EXCEPT ![car_id[u]] = @ + 1]
       ELSE UNCHANGED <<store, writes>>
    /\ IF attempt[u] = TRIES - 1 THEN
           /\ record_error
           /\ log' = [log EXCEPT ![u].err = @ + 1]
           /\ IF page'[u] = "open" THEN
                  /\ pc' = [pc EXCEPT ![u] = "closing_exit"]
                  /\ UNCHANGED <<sem_value, done_queue>>
              ELSE Finish(u, "abandoned")
       ELSE
           /\ pc' = [pc EXCEPT ![u] = "backoff"]
           /\ log' = [log EXCEPT ![u].slept = Append(@, Backoff(attempt[u]))]
           /\ UNCHANGED <<ctl_vars, sem_value, done_queue>>
    /\ UNCHANGED <<car_id, initial_store, attempt, completed_count, progress, consumed, main_state>>
    /\ UNCHANGED list_vars

\* lines 466-469: the backoff sleep ends, the finally clause closes the page
\* if there is one, the loop goes on
BackoffEnds(u) ==
    /\ Alive
    /\ pc[u] = "backoff"
    /\ IF page[u] = "open" THEN
           /\ pc' = [pc EXCEPT ![u] = "closing_retry"]
           /\ UNCHANGED <<attempt, log>>
       ELSE StartCycle(u, attempt[u] + 1)
    /\ UNCHANGED <<ctl_vars, car_id, initial_store, store, page, sem_value,
                   done_queue, completed_count, progress, consumed, main_state, writes>>
    /\ UNCHANGED list_vars

\* lines 454-455, 467-469: the politeness sleep ends, return runs the finally
PoliteEnds(u) ==
    /\ Alive
    /\ pc[u] = "polite"
    /\ pc' = [pc EXCEPT ![u] = "closing_exit"]
    /\ UNCHANGED <<ctl_vars, car_id, initial_store, store, attempt, page,
                   sem_value, done_queue, completed_count, progress, consumed, main_state, log,
                   writes>>
    /\ UNCHANGED list_vars

\* lines 467-469: page.close() returns
CloseReturns(u) ==
    /\ Alive
    /\ pc[u] \in {"closing_retry", "closing_exit"}
    /\ page' = [page EXCEPT ![u] = "closed"]
    /\ IF pc[u] = "closing_retry" THEN
           /\ StartCycle(u, attempt[u] + 1)
           /\ UNCHANGED <<sem_value, done_queue>>
       ELSE
           /\ Finish(u, IF log[u].ok > 0 THEN "saved" ELSE "abandoned")
           /\ UNCHANGED <<attempt, log>>
    /\ UNCHANGED <<ctl_vars, car_id, initial_store, store, completed_count, progress, consumed,
                   main_state, writes>>
    /\ UNCHANGED list_vars

\* lines 467-469: page.close() raises; nothing catches it, the exception
\* leaves scrape_single_url
CloseRaises(u) ==
    /\ Alive
    /\ pc[u] \in {"closing_retry", "closing_exit"}
    /\ Finish(u, "raised")
    /\ UNCHANGED <<ctl_vars, car_id, initial_store, store, attempt, page,
                   completed_count, progress, consumed, main_state, log, writes>>
    /\ UNCHANGED list_vars

\* a reporter that is called after every completed item
ProgressDueAlways(c, total) == TRUE

\* line 518: completed_count % 10 == 0 or completed_count == remaining_to_scrape
ProgressDue(c, total) == c % ProgressEvery = 0 \/ c = total

\* lines 515-523: main awaits the next finished task; an exception of the
\* task is raised in main and leaves the loop; after the last task the
\* adjuster is cancelled
MainAwaits ==
    /\ main_state = "running"
    /\ done_queue # <<>>
    /\ done_queue' = Tail(done_queue)
    /\ IF pc[Head(done_queue)] = "raised" THEN
           /\ main_state' = "aborting"
           /\ UNCHANGED <<completed_count, progress>>
       ELSE
           /\ completed_count' = completed_count + 1
           /\ progress' = IF ProgressDue(completed_count + 1, Remaining)
                          THEN Append(progress, completed_count + 1)
                          ELSE progress
           /\ main_state' = IF completed_count + 1 = Remaining
                            THEN "done" ELSE "running"
    /\ UNCHANGED <<ctl_vars, car_id, initial_store, store, pc, attempt, page,
                   sem_value, consumed, log, writes>>
    /\ UNCHANGED list_vars

\* the exception has left async_playwright and main; asyncio.run cancels
\* every task that is left
RunAborts ==
    /\ main_state = "aborting"
    /\ main_state' = "aborted"
    /\ pc' = [u \in Urls |->
                 IF pc[u] \in Active \cup {"queued"} THEN "cancelled" ELSE pc[u]]
    /\ UNCHANGED <<ctl_vars, car_id, initial_store, store, attempt, page,
                   sem_value, done_queue, completed_count, progress, consumed, log, writes>>
    /\ UNCHANGED list_vars

\* lines 279-283: adjuster_task, alive until it is cancelled
AdjusterSleeps ==
    /\ Alive
    /\ elapsed < DwellTime
    /\ Tick(DwellTime)
    /\ UNCHANGED fetch_vars
    /\ UNCHANGED list_vars

\* (the calls the dwell gate returns from at once are part of the sleeping)
AdjusterAdjusts ==
    /\ Alive
    /\ elapsed >= DwellTime
    /\ adjust_concurrency
    /\ consumed' = consumed + decision'.successes + decision'.errors
    /\ UNCHANGED <<car_id, initial_store, store, pc, attempt, page, sem_value,
                   done_queue, completed_count, progress, main_state, log,
                   writes>>
    /\ UNCHANGED list_vars

\* the other components while the manager is examined alone
FetchIdle ==
    /\ car_id = [u \in Urls |-> 0]
    /\ initial_store = [i \in Ids |-> "absent"]
    /\ store = initial_store
    /\ pc = [u \in Urls |-> "skipped"]
    /\ attempt = [u \in Urls |-> 0]
    /\ page = [u \in Urls |-> "none"]
    /\ sem_value = 0
    /\ done_queue = <<>>
    /\ completed_count = 0
    /\ progress = <<>>
    /\ consumed = 0
    /\ main_state = "done"
    /\ log = [u \in Urls |-> [attempts |-> 0, ok |-> 0, err |-> 0,
                             slept |-> <<>>]]
    /\ writes = [i \in Ids |-> 0]

-----------------------------------------------------------------------------
(* Listing script: ensure_url_list_exists, retry_failed_pages, main *)

NoFile == [exists |-> FALSE, data |-> {}]
NoList == [exists |-> FALSE, data |-> <<>>]

\* the detail links listing page p shows; neighbouring pages share a link
PageUrls(p) == {p, p + 1}

Range(q) == {q[i] : i \in 1..Len(q)}

\* a check that never finds the file
UrlsFileNever == FALSE

\* line 52: os.path.exists(URLS_FILE)
UrlsFileExists == urls_file.exists

\* lines 103-112, 185-196: the links added before the page is given up: all
\* of the view's when every read returns, some but not all when one read
\* raises, none when the links are never waited out
LinksRead(outcome, v) ==
    IF outcome = "ok" THEN {PageUrls(v)}
    ELSE IF outcome \in {"link_timeout", "link_fail"}
         THEN SUBSET PageUrls(v) \ {PageUrls(v)}
    ELSE {{}}

\* a pass that always writes the list, also the empty one
MarkersLeftAlways(still) == [exists |-> TRUE, data |-> still]

\* lines 215-218: the markers that failed again are written; with none left
\* the file is removed
MarkersLeft(still) ==
    IF still # <<>> THEN [exists |-> TRUE, data |-> still] ELSE NoList

\* a merge that keeps the new links only
MergedUrlsNewOnly(existing, newly) == newly

\* line 208: existing_urls.union(newly_scraped_urls)
MergedUrls(existing, newly) == existing \cup newly

\* a marker file that is left as it is
append_nothing(n) == failed_file

\* lines 32-43: append_failed_url("PAGE::n")
append_failed_url(n) ==
    LET failed_urls == IF failed_file.exists THEN failed_file.data ELSE <<>>
    IN  [exists |-> TRUE,
         data |-> IF n \in Range(failed_urls) THEN failed_urls
                  ELSE Append(failed_urls, n)]

Entered(fn) ==
    [fn |-> fn, urls |-> urls_file, failed |-> failed_file, net |-> 0,
     result |-> "running", base |-> FALSE, scraped |-> {},
     part |-> {}, merged |-> {}, resolved |-> {},
     count |-> "none"]

ListInit(n) ==
    /\ site_pages = n
    /\ urls_file = NoFile
    /\ failed_file = NoList
    /\ view = 0
    /\ s_pc = "idle"
    /\ runs = 0
    /\ page_num = 0
    /\ last_page_number = 0
    /\ detail_urls = {}
    /\ failed_items = <<>>
    /\ existing_urls = {}
    /\ still_failed = <<>>
    /\ newly_scraped_urls = {}
    /\ call = [fn |-> "none", urls |-> NoFile, failed |-> NoList, net |-> 0,
               result |-> "none", base |-> FALSE, scraped |-> {},
               part |-> {}, merged |-> {}, resolved |-> {},
     count |-> "none"]

\* the locals of a function that has returned
NoLocals ==
    /\ page_num' = 0
    /\ last_page_number' = 0
    /\ detail_urls' = {}
    /\ failed_items' = <<>>
    /\ existing_urls' = {}
    /\ still_failed' = <<>>
    /\ newly_scraped_urls' = {}

\* lines 222-229: the script starts; main opens a fresh page and calls
\* retry_failed_pages
RunStarts ==
    /\ s_pc = "idle"
    /\ runs < MaxRuns
    /\ runs' = runs + 1
    /\ s_pc' = "retry"
    /\ view' = 0
    /\ call' = Entered("retry")
    /\ UNCHANGED <<ctl_vars, fetch_vars, site_pages, urls_file, failed_file, page_num,
                   last_page_number, detail_urls, failed_items, existing_urls,
                   still_failed, newly_scraped_urls>>

\* lines 134-144: no marker file, or an empty one: return
RetryReturnsEarly ==
    /\ s_pc = "retry"
    /\ ~failed_file.exists \/ failed_file.data = <<>>
    /\ s_pc' = "harvest"
    /\ call' = Entered("harvest")
    /\ UNCHANGED <<ctl_vars, fetch_vars, site_pages, urls_file, failed_file, view, runs, page_num,
                   last_page_number, detail_urls, failed_items, existing_urls,
                   still_failed, newly_scraped_urls>>

\* a pass that goes on to the markers although the root was not reached
RetryRootFailsGoesOn ==
    /\ s_pc = "retry"
    /\ failed_file.exists /\ failed_file.data # <<>>
    /\ s_pc' = "retry_pages"
    /\ view' = 0
    /\ failed_items' = failed_file.data
    /\ existing_urls' = IF urls_file.exists THEN urls_file.data ELSE {}
    /\ still_failed' = <<>>
    /\ newly_scraped_urls' = {}
    /\ call' = [call EXCEPT !.net = @ + 1]
    /\ UNCHANGED <<ctl_vars, fetch_vars, site_pages, urls_file, failed_file,
                   runs, page_num, last_page_number, detail_urls>>

\* lines 149-157: the listing root cannot be reached: return
RetryRootFails ==
    /\ s_pc = "retry"
    /\ failed_file.exists /\ failed_file.data # <<>>
    /\ s_pc' = "harvest"
    /\ view' = 0
    /\ call' = Entered("harvest")
    /\ UNCHANGED <<ctl_vars, fetch_vars, site_pages, urls_file, failed_file, runs, page_num,
                   last_page_number, detail_urls, failed_items, existing_urls,
                   still_failed, newly_scraped_urls>>

\* lines 137-169: the markers are loaded, the root and the search button
\* bring up the first listing page, the discovery file is loaded
RetryBegins ==
    /\ s_pc = "retry"
    /\ failed_file.exists /\ failed_file.data # <<>>
    /\ s_pc' = "retry_pages"
    /\ view' = 1
    /\ failed_items' = failed_file.data
    /\ existing_urls' = IF urls_file.exists THEN urls_file.data ELSE {}
    /\ still_failed' = <<>>
    /\ newly_scraped_urls' = {}
    /\ call' = [call EXCEPT !.net = @ + 2, !.base = TRUE]
    /\ UNCHANGED <<ctl_vars, fetch_vars, site_pages, urls_file, failed_file, runs, page_num,
                   last_page_number, detail_urls>>

\* how the retry of one marker can end: the transition raises, the wait for
\* the links raises, reading one of the links raises, or the links of the
\* view are read
RetryOutcomes == {"nav_fail", "timeout", "link_fail", "ok"}

\* lines 171-204: one marker
RetryPage(outcome) ==
    /\ s_pc = "retry_pages"
    /\ failed_items # <<>>
    /\ LET n == Head(failed_items)
           v == IF n > 1 /\ outcome # "nav_fail" THEN n ELSE view
       IN  /\ outcome = "nav_fail" => n > 1
           /\ view' = v
           /\ \E links \in LinksRead(outcome, v) :
                  /\ call' = [call EXCEPT
                                !.net = @ + (IF n > 1 THEN 1 ELSE 0)
                                          + (IF outcome # "nav_fail" THEN 1 ELSE 0),
                                !.scraped = IF outcome = "ok"
                                            THEN @ \cup {<<n, v>>} ELSE @,
                                !.part = IF outcome = "ok"
                                         THEN @ ELSE @ \cup links]
                  /\ newly_scraped_urls' =
                         newly_scraped_urls \cup (links \ existing_urls)
           /\ still_failed' = IF outcome = "ok" THEN still_failed
                              ELSE Append(still_failed, n)
    /\ failed_items' = Tail(failed_items)
    /\ UNCHANGED <<ctl_vars, fetch_vars, site_pages, urls_file, failed_file, s_pc, runs, page_num,
                   last_page_number, detail_urls, existing_urls>>

\* lines 206-219: the merged set and the markers left are written; main goes
\* on to ensure_url_list_exists
RetryFinishes ==
    /\ s_pc = "retry_pages"
    /\ failed_items = <<>>
    /\ urls_file' = IF newly_scraped_urls # {}
                    THEN [exists |-> TRUE,
                          data |-> MergedUrls(existing_urls, newly_scraped_urls)]
                    ELSE urls_file
    /\ failed_file' = MarkersLeft(still_failed)
    /\ s_pc' = "harvest"
    /\ NoLocals
    /\ call' = [fn |-> "harvest", urls |-> urls_file', failed |-> failed_file',
                net |-> 0, result |-> "running", base |-> FALSE,
                scraped |-> {}, part |-> {},
                merged |-> newly_scraped_urls,
                resolved |-> {p[1] : p \in call.scraped},
                count |-> "none"]
    /\ UNCHANGED <<ctl_vars, fetch_vars, site_pages, view, runs>>

\* lines 52-56: the discovery file exists: return
HarvestShortCircuits ==
    /\ s_pc = "harvest"
    /\ UrlsFileExists
    /\ s_pc' = "idle"
    /\ call' = [call EXCEPT !.result = "short_circuit"]
    /\ UNCHANGED <<ctl_vars, fetch_vars, site_pages, urls_file, failed_file, view, runs, page_num,
                   last_page_number, detail_urls, failed_items, existing_urls,
                   still_failed, newly_scraped_urls>>

\* how the start of a harvest can end: the root or the button raises (nothing
\* catches it), the page count control is absent, its count cannot be
\* parsed, or the count is read
StartOutcomes == {"root_fail", "count_absent", "count_bad", "count_ok"}

\* lines 58-86
HarvestBegins(outcome) ==
    /\ s_pc = "harvest"
    /\ ~UrlsFileExists
    /\ IF outcome = "root_fail" THEN
           /\ s_pc' = "idle"
           /\ view' = 0
           /\ call' = [call EXCEPT !.net = @ + 1, !.result = "crashed",
                                    !.count = outcome]
           /\ UNCHANGED <<page_num, last_page_number, detail_urls>>
       ELSE IF outcome = "count_bad" THEN
           /\ s_pc' = "idle"
           /\ view' = 1
           /\ call' = [call EXCEPT !.net = @ + 2, !.result = "aborted",
                                    !.base = TRUE, !.count = outcome]
           /\ UNCHANGED <<page_num, last_page_number, detail_urls>>
       ELSE
           /\ s_pc' = "harvest_pages"
           /\ view' = 1
           /\ call' = [call EXCEPT !.net = @ + 2, !.base = TRUE,
                                    !.count = outcome]
           /\ page_num' = 1
           /\ last_page_number' =
                  IF outcome = "count_absent" THEN 1 ELSE site_pages
           /\ detail_urls' = {}
    /\ UNCHANGED <<ctl_vars, fetch_vars, site_pages, urls_file, failed_file, runs, failed_items,
                   existing_urls, still_failed, newly_scraped_urls>>

\* how one page of the harvest can end: the transition raises, the wait for
\* the links times out, reading one of the links times out, reading a link
\* raises another exception (nothing catches it), or the links are read
PageOutcomes == {"nav_fail", "timeout", "link_timeout", "error", "ok"}

\* lines 86-121: one page
HarvestPage(outcome) ==
    /\ s_pc = "harvest_pages"
    /\ page_num <= last_page_number
    /\ outcome = "nav_fail" => page_num > 1
    /\ LET v == IF page_num > 1 /\ outcome # "nav_fail" THEN page_num ELSE view
       IN  /\ view' = v
           /\ \E links \in LinksRead(outcome, v) :
                  /\ call' = [call EXCEPT
                                !.net = @ + (IF page_num > 1 THEN 1 ELSE 0)
                                          + (IF outcome # "nav_fail" THEN 1 ELSE 0),
                                !.result = IF outcome = "error"
                                           THEN "crashed" ELSE @,
                                !.scraped = IF outcome = "ok"
                                            THEN @ \cup {<<page_num, v>>} ELSE @,
                                !.part = IF outcome = "ok"
                                         THEN @ ELSE @ \cup links]
                  /\ detail_urls' = detail_urls \cup links
    /\ failed_file' = IF outcome \in {"nav_fail", "timeout", "link_timeout"}
                      THEN append_failed_url(page_num) ELSE failed_file
    /\ IF outcome = "error" THEN
           /\ s_pc' = "idle"
           /\ UNCHANGED page_num
       ELSE
           /\ page_num' = page_num + 1
           /\ UNCHANGED s_pc
    /\ UNCHANGED <<ctl_vars, fetch_vars, site_pages, urls_file, runs, last_page_number, failed_items,
                   existing_urls, still_failed, newly_scraped_urls>>

\* lines 123-125: after the last page the accumulated set is written
HarvestSaves ==
    /\ s_pc = "harvest_pages"
    /\ page_num > last_page_number
    /\ urls_file' = [exists |-> TRUE, data |-> detail_urls]
    /\ s_pc' = "idle"
    /\ call' = [call EXCEPT !.result = "saved"]
    /\ UNCHANGED <<ctl_vars, fetch_vars, site_pages, failed_file, view, runs, page_num,
                   last_page_number, detail_urls, failed_items, existing_urls,
                   still_failed, newly_scraped_urls>>

InitList == \E n \in 1..MaxPages : ListInit(n)

NextList ==
    \/ RunStarts
    \/ RetryReturnsEarly
    \/ RetryRootFails
    \/ RetryBegins
    \/ \E outcome \in RetryOutcomes : RetryPage(outcome)
    \/ RetryFinishes
    \/ HarvestShortCircuits
    \/ \E outcome \in StartOutcomes : HarvestBegins(outcome)
    \/ \E outcome \in PageOutcomes : HarvestPage(outcome)
    \/ HarvestSaves

ListIdle == ListInit(1)

-----------------------------------------------------------------------------
(* SpecCtl: the manager under any sequence of reports, clock readings and  *)
(* adjust_concurrency calls, windows of at most MaxSuccess + MaxError      *)
(* reports.                                                                *)

OthersIdle == UNCHANGED <<fetch_vars, list_vars>>

InitCtl == FetchIdle /\ ListIdle /\ \E c \in Configs : ManagerInit(c[1], c[2], c[3])

CtlRecordSuccess == success_count < MaxSuccess /\ record_success /\ OthersIdle
CtlRecordError == error_count < MaxError /\ record_error /\ OthersIdle
\* adjuster_task polls every AdjusterSleep, so a window is decided as soon
\* as DwellTime has passed: the clock is read at 0 and at DwellTime
CtlTick == elapsed < DwellTime /\ Tick(DwellTime) /\ OthersIdle
CtlAdjust == Len(throughput_history) < MaxSamples /\ adjust_concurrency /\ OthersIdle

NextCtl ==
    \/ CtlRecordSuccess
    \/ CtlRecordError
    \/ CtlTick
    \/ CtlAdjust

SpecCtl == InitCtl /\ [][NextCtl]_vars

Spec == SpecCtl

-----------------------------------------------------------------------------
(* SpecHist: the manager of the default command line (--initial 8, --min 3, *)
(* --max 30),                                                              *)
(* followed until HistSamples samples are in the history: decisions of     *)
(* every kind are taken on a history of MinSamples samples and more, with   *)
(* windows of 0 to HistSuccess successes.                                   *)

\* the call takes the contraction branch
Contracts ==
    /\ ~DwellGate(elapsed)
    /\ ~ZeroTraffic(success_count, error_count)
    /\ ErrorRateHigh(success_count, error_count)

InitHist ==
    /\ FetchIdle
    /\ ListIdle
    /\ ManagerInit(DefaultInitial, DefaultMin, DefaultMax)

HistRecordSuccess == success_count < HistSuccess /\ record_success /\ OthersIdle
HistRecordError == error_count < MaxError /\ record_error /\ OthersIdle
HistTick == elapsed < DwellTime /\ Tick(DwellTime) /\ OthersIdle
\* contractions, which append no sample, go on when the history is at its bound
HistAdjust ==
    /\ Len(throughput_history) < HistSamples \/ Contracts
    /\ adjust_concurrency
    /\ OthersIdle

NextHist ==
    \/ HistRecordSuccess
    \/ HistRecordError
    \/ HistTick
    \/ HistAdjust

SpecHist == InitHist /\ [][NextHist]_vars

-----------------------------------------------------------------------------
(* SpecFetch: one run of the fetch phase of main *)

\* configurations of the fetch phase: max_concurrency up to MaxSlots
FetchConfigs == {c \in Configs : c[3] <= MaxSlots}

InitFetch == ListIdle /\ \E c \in FetchConfigs : FetchInit(c[1], c[2], c[3])

NextFetch ==
    \/ \E u \in Urls : Admit(u)
    \/ \E u \in Urls : CycleSucceeds(u)
    \/ \E u \in Urls : \E kind \in FailureKinds : CycleFails(u, kind)
    \/ \E u \in Urls : BackoffEnds(u)
    \/ \E u \in Urls : PoliteEnds(u)
    \/ \E u \in Urls : CloseReturns(u)
    \/ \E u \in Urls : CloseRaises(u)
    \/ MainAwaits
    \/ RunAborts
    \/ AdjusterSleeps
    \/ AdjusterAdjusts

SpecFetch == InitFetch /\ [][NextFetch]_vars

-----------------------------------------------------------------------------
(* SpecList: runs of the listing script, one after the other *)

ManagerIdle == ManagerInit(1, 1, 1)

InitListing == ManagerIdle /\ FetchIdle /\ InitList

SpecList == InitListing /\ [][NextList]_vars

-----------------------------------------------------------------------------
(* SpecWindow: the first decision window of a run, up to MaxTicks clock     *)
(* steps long, with up to WinSuccess successes and WinError errors, so     *)
(* that error rates on both sides of 0.1 occur.                            *)

InitWindow == InitCtl

WinRecordSuccess == success_count < WinSuccess /\ record_success /\ OthersIdle
WinRecordError == error_count < WinError /\ record_error /\ OthersIdle
WinTick == elapsed < MaxTicks * AdjusterSleep /\ Tick(AdjusterSleep) /\ OthersIdle
\* the run ends with its first decision that passes the dwell gate
WinAdjust == decision.path \in {"none", "gate"} /\ adjust_concurrency /\ OthersIdle

NextWindow ==
    \/ WinRecordSuccess
    \/ WinRecordError
    \/ WinTick
    \/ WinAdjust

SpecWindow == InitWindow /\ [][NextWindow]_vars

-----------------------------------------------------------------------------
(* SpecConv: the synthetic plant of the convergence property.  Every       *)
(* window is error free and exactly DwellTime long, and the number of      *)
(* successes in it is PlantRate(target): a fixed function of the current   *)
(* target with its single peak at Peak.  adjuster_task (lines 279-283)     *)
(* calls adjust_concurrency again and again, hence the weak fairness.      *)

PlantRate(t) == ConvSpan + 1 - (IF t >= Peak THEN t - Peak ELSE Peak - t)

InitConv ==
    /\ FetchIdle
    /\ ListIdle
    /\ \E t \in (Peak - ConvSpan)..(Peak + ConvSpan) :
        ManagerInit(t, Peak - ConvSpan, Peak + ConvSpan)

ConvRecordSuccess ==
    /\ success_count < PlantRate(target_concurrency)
    /\ record_success
    /\ OthersIdle

ConvTick == elapsed < DwellTime /\ Tick(AdjusterSleep) /\ OthersIdle

ConvAdjust ==
    /\ elapsed < DwellTime \/ success_count = PlantRate(target_concurrency)
    /\ adjust_concurrency
    /\ OthersIdle

NextConv ==
    \/ ConvRecordSuccess
    \/ ConvTick
    \/ ConvAdjust

SpecConv == InitConv /\ [][NextConv]_vars /\ WF_vars(NextConv)

-----------------------------------------------------------------------------
(* Claims *)

\* decisions that passed the dwell gate with successes + errors > 0
WithTraffic == decision.path \in {"contract", "probe", "climb"}

\* C1: whatever reports, clock readings and adjust_concurrency calls have
\* happened, target_concurrency lies within [min, max].
C1_TargetInRange == min <= target_concurrency /\ target_concurrency <= max

\* a hill-climb decision taken at target = max left the target at max
C1_Witness ==
    /\ decision.path = "climb"
    /\ decision.target = max
    /\ target_concurrency = max
    /\ min < max

\* C3: a decision with traffic takes the contraction branch exactly when
\* errors / (successes + errors) > 0.1, and then the target is
\* max(min, floor(0.7 target)); otherwise the target moves by the
\* optimisation step (one up, capped, or one down, floored).
C3_Contraction ==
    WithTraffic =>
        LET s == decision.successes
            e == decision.errors
            t == decision.target
        IN  /\ (decision.path = "contract") <=> (10 * e > s + e)
            /\ decision.path = "contract" =>
                   target_concurrency = MaxOf(min, (7 * t) \div 10)
            /\ decision.path # "contract" =>
                   target_concurrency \in {MinOf(max, t + 1), MaxOf(min, t - 1)}

\* 8 successes and 2 errors (rate 0.2) contracted the target
C3_Witness ==
    /\ decision.path = "contract"
    /\ decision.successes = 8
    /\ decision.errors = 2
    /\ target_concurrency < decision.target
    /\ target_concurrency = MaxOf(min, (7 * decision.target) \div 10)

\* 9 successes and 1 error (rate exactly 0.1) did not contract
C3_BoundaryCase ==
    (/\ decision.successes = 9
      /\ decision.errors = 1
      /\ decision.path = "probe"
      /\ target_concurrency = decision.target + 1)

\* C4: with error-free windows whose throughput is PlantRate(target), from any
\* initial target in [min, max] the target eventually stays within 1 of Peak
\* for ever, and it never settles on a value other than Peak.
NearPeak == target_concurrency \in (Peak - 1)..(Peak + 1)

C4_Convergence ==
    /\ <>[]NearPeak
    /\ \A c \in ((Peak - ConvSpan)..(Peak + ConvSpan)) \ {Peak} :
           []<>(target_concurrency # c)

\* C2: no task passes the admission gate and starts fetching while the
\* number of tasks holding a slot is at or above the manager's current target.
C2_AdmissionTracksTarget ==
    [][\A u \in Urls :
          (pc[u] = "queued" /\ pc'[u] = "fetching")
              => Holding < target_concurrency]_vars

\* C5: no cycle is started for an id whose completed record is in the store.
C5_NoRefetch ==
    [][\A u \in Urls :
          log'[u].attempts > log[u].attempts
              => store[car_id[u]] # "complete"]_vars

\* C6: once the record of an id exists, no save_data_to_json call opens its
\* file again.
C6_WriteOnce ==
    [][\A i \in Ids :
          store[i] = "complete" => writes'[i] = writes[i]]_vars

\* C7: a finished item none of whose cycles succeeded has had exactly TRIES
\* cycles and one error report, no success report, and no file of its id
\* exists.
AllCyclesFailed(u) ==
    /\ pc[u] \in {"abandoned", "raised"}
    /\ log[u].attempts > 0
    /\ log[u].ok = 0

C7_BoundedRetry ==
    \A u \in Urls :
        AllCyclesFailed(u) =>
            /\ log[u].attempts = 3
            /\ log[u].err = 1
            /\ store[car_id[u]] = "absent"

\* C8: the input ids are distinct and every cycle that was started succeeded,
\* one per URL whose id was absent: then the cycles started are as many as
\* the URLs whose id was absent, and the store is the initial store plus
\* those ids.
RECURSIVE CyclesStarted(_)
CyclesStarted(n) == IF n = 0 THEN 0 ELSE log[n].attempts + CyclesStarted(n - 1)

DistinctIds ==
    /\ \A u \in Urls : car_id[u] # 0
    /\ \A u, v \in Urls : u # v => car_id[u] # car_id[v]

AbsentUrls == {u \in Urls : initial_store[car_id[u]] = "absent"}

AllFirstAttempts ==
    /\ \A u \in AbsentUrls : log[u].ok = 1
    /\ \A u \in Urls : log[u].attempts > 0 =>
           (log[u].attempts = 1 /\ log[u].ok = 1)

C8_EndToEnd ==
    (DistinctIds /\ AllFirstAttempts /\ main_state # "running") =>
        /\ CyclesStarted(NumUrls) = Cardinality(AbsentUrls)
        /\ \A i \in Ids :
               store[i] = IF \E u \in AbsentUrls : car_id[u] = i
                          THEN "complete" ELSE initial_store[i]

\* one id was present, the other was fetched once, and main has finished
C8_Witness ==
    /\ DistinctIds
    /\ AllFirstAttempts
    /\ main_state = "done"
    /\ Cardinality(AbsentUrls) = NumUrls - 1
    /\ CyclesStarted(NumUrls) = NumUrls - 1
    /\ \A u \in Urls : store[car_id[u]] = "complete"

\* C9: when the run is over, every URL whose id was not in the store at the
\* start has had its record persisted or has been abandoned after the last
\* cycle.
Settled(u) == log[u].ok > 0 \/ pc[u] = "abandoned"

C9_EveryUrlSettled ==
    main_state \in {"done", "aborted"} =>
        \A u \in Urls :
            (car_id[u] # 0 /\ initial_store[car_id[u]] = "absent")
                => Settled(u)

\* C10: a call of ensure_url_list_exists that finds the discovery file issues
\* no network call and leaves the discovery file and the marker file as they
\* were when it was entered.
C10_IdempotentHarvest ==
    (call.fn = "harvest" /\ call.urls.exists) =>
        /\ call.net = 0
        /\ call.result \in {"running", "short_circuit"}
        /\ urls_file = call.urls
        /\ failed_file = call.failed

\* the second run's call has returned at once, with links in the discovery
\* file and a marker in the marker file
C10_Witness ==
    /\ runs = 2
    /\ s_pc = "idle"
    /\ call.fn = "harvest"
    /\ call.result = "short_circuit"
    /\ urls_file.exists /\ urls_file.data # {}
    /\ failed_file.exists /\ failed_file.data # <<>>

\* C11: a retry pass entered with the discovery set D leaves D united with
\* the links of the pages it retried with success, nothing else, and no step
\* of either function removes a link from the discovery file.
Stored(f) == IF f.exists THEN f.data ELSE {}

Found(scraped) == UNION {PageUrls(p[2]) : p \in scraped}

RetryReturns == call.fn = "retry" /\ call'.fn = "harvest"

NeverLoses ==
    /\ Stored(urls_file) \subseteq Stored(urls_file')
    /\ urls_file.exists => urls_file'.exists

C11_RetryUnion ==
    [][/\ RetryReturns =>
              Stored(urls_file') = Stored(call.urls) \cup Found(call.scraped)
       /\ NeverLoses]_vars

\* C11, amended: a retry pass entered with the discovery set D leaves D united
\* with every link it read, those read on a page whose retry then failed
\* included, and no step of either function removes a link from the
\* discovery file.
C11_RetryUnionOfLinksRead ==
    [][/\ RetryReturns =>
              Stored(urls_file') =
                  Stored(call.urls) \cup Found(call.scraped) \cup call.part
       /\ NeverLoses]_vars

\* a retry pass has added links to a discovery file that held others, and
\* one of its markers failed again
C11_Witness ==
    /\ call.fn = "harvest"
    /\ call.merged # {}
    /\ call.urls.data \ call.merged # {}
    /\ urls_file = call.urls
    /\ failed_file.exists

\* C12: a page of the harvest that fails (transition or wait for the links)
\* gets its marker, adds no link, and the loop goes on with the next page;
\* a harvest that has saved has written the links it accumulated, whatever
\* failed.
PageGivenUp ==
    /\ s_pc = "harvest_pages"
    /\ page_num <= last_page_number
    /\ call'.scraped = call.scraped
    /\ call'.result # "crashed"

MarkedAndContinued ==
    /\ failed_file'.exists
    /\ page_num \in Range(failed_file'.data)
    /\ \A n \in Range(failed_file.data) : n \in Range(failed_file'.data)
    /\ s_pc' = "harvest_pages"
    /\ page_num' = page_num + 1

SavedWhatWasRead ==
    (s_pc = "harvest_pages" /\ s_pc' = "idle" /\ call'.result = "saved") =>
        /\ page_num = last_page_number + 1
        /\ urls_file' = [exists |-> TRUE, data |-> detail_urls]
        /\ detail_urls = Found(call.scraped) \cup call.part

C12_HarvestSurvives ==
    [][/\ PageGivenUp => (MarkedAndContinued /\ detail_urls' = detail_urls)
       /\ SavedWhatWasRead]_vars

\* C12, amended: a page of the harvest that fails gets its marker and the
\* loop goes on with the next page; it adds no link when the transition
\* failed, and otherwise only links of that page read before the timeout; a
\* harvest that has saved has written the links it accumulated, whatever
\* failed.
C12_HarvestSurvivesPartialReads ==
    [][/\ PageGivenUp =>
              /\ MarkedAndContinued
              /\ detail_urls \subseteq detail_urls'
              /\ (detail_urls' \ detail_urls) \subseteq
                     (PageUrls(page_num) \cap call'.part)
              /\ view' # page_num => detail_urls' = detail_urls
       /\ SavedWhatWasRead]_vars

\* a harvest has saved after one page was read, one was given up with some
\* of its links read, and one was given up with none
C12_Witness ==
    /\ call.fn = "harvest"
    /\ call.result = "saved"
    /\ call.scraped # {}
    /\ call.part # {}
    /\ failed_file.exists /\ Len(failed_file.data) >= 2
    /\ urls_file.exists /\ urls_file.data # {}

\* C13: a retry pass replays a transition, waits for links, reads links or
\* gives a marker up only after its own navigation to the root and its click
\* on the search button have returned.
RetryTouchesPage ==
    /\ call.fn = "retry" /\ call'.fn = "retry"
    /\ \/ call'.scraped # call.scraped
       \/ call'.part # call.part
       \/ still_failed' # still_failed
       \/ newly_scraped_urls' # newly_scraped_urls
       \/ view' # view /\ view' > 1
       \/ failed_items # <<>> /\ failed_items' # failed_items

C13_RetryOrdering ==
    [][RetryTouchesPage => (call.base /\ call.net >= 2 /\ view >= 1)]_vars

\* a pass that reached the base state has resolved one marker by a
\* transition and given another one up
C13_Witness ==
    /\ call.fn = "retry"
    /\ call.base
    /\ call.scraped # {}
    /\ still_failed # <<>>
    /\ view > 1

\* C14: a retry pass leaves in the marker file just those markers it was
\* entered with whose retry did not succeed, and no file when there is none;
\* the marker file is at any time absent or a non-empty list of distinct
\* PAGE::n markers of pages 1..N.
Markers(f) == IF f.exists THEN Range(f.data) ELSE {}

Resolved(scraped) == {p[1] : p \in scraped}

MarkerFileWellFormed(f) ==
    IF f.exists
    THEN /\ f.data # <<>>
         /\ \A i \in 1..Len(f.data) : f.data[i] \in 1..site_pages
         /\ \A i, j \in 1..Len(f.data) : i # j => f.data[i] # f.data[j]
    ELSE f = NoList

C14_MarkersAfterRetry ==
    [][/\ RetryReturns =>
              /\ Markers(failed_file') =
                     Markers(call.failed) \ Resolved(call.scraped)
              /\ Resolved(call.scraped) \subseteq Markers(call.failed)
              /\ Markers(failed_file') = {} => ~failed_file'.exists
       /\ MarkerFileWellFormed(failed_file')]_vars

\* the pass before this harvest call resolved every marker it was entered
\* with, two or more: the file is gone
C14_AllResolved ==
    /\ call.fn = "harvest"
    /\ Cardinality(call.resolved) >= 2
    /\ ~call.failed.exists

\* the pass before this harvest call resolved one marker and kept another
C14_Witness ==
    /\ call.fn = "harvest"
    /\ call.result = "running"
    /\ call.resolved # {}
    /\ call.failed.exists
    /\ Markers(call.failed) \cap call.resolved = {}
    /\ failed_file = call.failed

\* C15: whatever step of one item fails, main does not abort, and when the
\* run is over no other item has been cancelled before its own outcome.
C15_NoBatchAbort ==
    /\ main_state \notin {"aborting", "aborted"}
    /\ main_state = "done" =>
           \A u \in Urls : pc[u] \in {"skipped", "saved", "abandoned", "invalid"}

\* C16: every step of the manager that is neither a report nor the clock, made
\* DwellTime or more after the last decision, is a decision on one of the four
\* paths and ends with both counters at 0 and the window restarted.
DecisionStep ==
    /\ elapsed >= DwellTime
    /\ ctl_vars' # ctl_vars
    /\ success_count' <= success_count
    /\ error_count' <= error_count
    /\ elapsed' <= elapsed

C16_CountersReset ==
    [][DecisionStep =>
          /\ decision'.path \in {"idle", "contract", "probe", "climb"}
          /\ decision'.successes = success_count
          /\ decision'.errors = error_count
          /\ success_count' = 0
          /\ error_count' = 0
          /\ elapsed' = 0]_vars

\* a contraction has just been decided on a window with errors, and the
\* counters and the window are back at 0
C16_Witness ==
    /\ decision.path = "contract"
    /\ decision.errors > 0
    /\ decision.elapsed >= DwellTime
    /\ success_count = 0
    /\ error_count = 0
    /\ elapsed = 0

\* C17: when the run is over, every id that the filter of a later run would
\* skip has a completely written record.
C17_CommitSafety ==
    main_state \in {"done", "aborted"} =>
        \A u \in Urls :
            (car_id[u] # 0 /\ ~ToProcess(u, store))
                => store[car_id[u]] = "complete"

\* C18: while main is in its loop the adjuster can take its next step, and
\* once the run is over, completed or aborted, nothing moves any more: no
\* decision, no report, no task step.
RunOver == main_state \in {"done", "aborted"}

C18_LoopLifetime ==
    /\ [](main_state = "running" => ENABLED (AdjusterSleeps \/ AdjusterAdjusts))
    /\ [][~RunOver]_vars

\* the run has completed after the adjuster took a decision on a window with
\* traffic
C18_Witness ==
    /\ main_state = "done"
    /\ completed_count = Remaining
    /\ completed_count > 0
    /\ decision.path \in {"contract", "probe"}
    /\ ~ENABLED AdjusterSleeps
    /\ ~ENABLED AdjusterAdjusts

\* C19: less than DwellTime after the last decision no step changes the
\* target or the history or restarts the window, the counters only grow by
\* reports, and an adjust_concurrency call leaves all of them as they are;
\* hence a step that restarts the window comes DwellTime or more after the
\* one before.
C19_DwellGate ==
    [][/\ elapsed < DwellTime =>
              /\ target_concurrency' = target_concurrency
              /\ throughput_history' = throughput_history
              /\ elapsed' >= elapsed
              /\ success_count' >= success_count
              /\ error_count' >= error_count
              /\ decision' # decision =>
                     /\ decision'.path = "gate"
                     /\ UNCHANGED <<success_count, error_count, elapsed>>
       /\ elapsed' < elapsed => elapsed >= DwellTime]_vars

\* a call made one adjuster period before DwellTime has returned at the gate
\* with reports of both kinds still counted
C19_Witness ==
    /\ decision.path = "gate"
    /\ elapsed = DwellTime - AdjusterSleep
    /\ success_count > 0
    /\ error_count > 0

\* C20: a decision on a window without any report leaves the target and the
\* history as they are and restarts the counters and the window.
C20_ZeroTraffic ==
    [][(success_count + error_count = 0 /\ elapsed' < elapsed) =>
          /\ decision'.path = "idle"
          /\ target_concurrency' = target_concurrency
          /\ throughput_history' = throughput_history
          /\ success_count' = 0
          /\ error_count' = 0
          /\ elapsed' = 0]_vars

\* an empty window has just been decided in the probing phase, below max:
\* no sample was added and the target stayed
C20_Witness ==
    /\ decision.path = "idle"
    /\ decision.elapsed >= DwellTime
    /\ elapsed = 0
    /\ throughput_history # <<>>
    /\ Len(throughput_history) < MinSamples - 1
    /\ target_concurrency = decision.target
    /\ target_concurrency < max

-----------------------------------------------------------------------------
\* C21: a decision taken DwellTime or more after the last one, on a window
\* with traffic whose error rate is above 0.1, leaves the throughput history
\* as it was, whatever it holds, and moves the target to
\* max(min, floor(0.7 * target)): neither the probe increment nor the
\* hill-climb step is applied.
HighErrorWindow ==
    /\ success_count + error_count > 0
    /\ 10 * error_count > success_count + error_count

C21_ContractionKeepsHistory ==
    [][DecisionStep /\ HighErrorWindow =>
          /\ throughput_history' = throughput_history
          /\ decision'.path = "contract"
          /\ target_concurrency' = MaxOf(min, (7 * target_concurrency) \div 10)
          /\ target_concurrency' <= target_concurrency]_vars

\* a contraction has lowered the target while the history held MinSamples
\* samples or more, the case in which the hill-climb step would have run
C21_Witness ==
    /\ decision.path = "contract"
    /\ decision.target > target_concurrency
    /\ Len(throughput_history) >= MinSamples
    /\ elapsed = 0

-----------------------------------------------------------------------------
\* C22: a decision on a window with traffic and an error rate of at most 0.1
\* appends one sample; when the history then holds fewer than MinSamples
\* samples the target becomes min(max, target + 1) whatever the throughput of
\* the window, and when it then holds MinSamples or more the hill-climb rule
\* decides. The samples in the history count those decisions, so the first
\* four of a run probe and the fifth is the first to climb.
CleanWindow ==
    /\ success_count + error_count > 0
    /\ 10 * error_count <= success_count + error_count

C22_OptimisticProbe ==
    [][DecisionStep /\ CleanWindow =>
          /\ Len(throughput_history') = Len(throughput_history) + 1
          /\ Len(throughput_history) + 1 < 5 =>
                 /\ decision'.path = "probe"
                 /\ target_concurrency' = MinOf(max, target_concurrency + 1)
          /\ Len(throughput_history) + 1 >= 5 => decision'.path = "climb"]_vars

\* the fourth sample, of a window with a lower throughput than the one
\* before, has just been appended and the target was raised by 1
C22_Witness ==
    /\ decision.path = "probe"
    /\ Len(throughput_history) = 4
    /\ throughput_history[4][2] < throughput_history[3][2]
    /\ target_concurrency = decision.target + 1

\* the fifth sample has just been appended and the hill-climb rule decided
C22_FifthClimbs ==
    /\ decision.path = "climb"
    /\ Len(throughput_history) = 5

-----------------------------------------------------------------------------
\* C23: a decision on a window with traffic and an error rate of at most 0.1
\* that brings the history to MinSamples samples or more moves the target by
\* the hill-climb rule towards a level of the history whose samples have the
\* highest average throughput: up by 1, capped at max, when the target is
\* below that level or on it, down by 1, floored at min, when it is above.
HighestAverage(h) ==
    {c \in Levels(h) :
        \A d \in Levels(h) :
            SumOf(h, c) * CountOf(h, d) >= SumOf(h, d) * CountOf(h, c)}

ClimbTo(t, best) ==
    IF t < best THEN MinOf(max, t + 1)
    ELSE IF t > best THEN MaxOf(min, t - 1)
    ELSE MinOf(max, t + 1)

C23_HillClimbStep ==
    [][DecisionStep /\ CleanWindow /\ Len(throughput_history) + 1 >= 5 =>
          \E best \in HighestAverage(throughput_history') :
              target_concurrency' = ClimbTo(target_concurrency, best)]_vars

\* the hill-climb rule has just lowered the target by 1: one level of the
\* history has the highest average and the target was above it
C23_Witness ==
    /\ decision.path = "climb"
    /\ Len(throughput_history) >= 5
    /\ Cardinality(HighestAverage(throughput_history)) = 1
    /\ \A best \in HighestAverage(throughput_history) : decision.target > best
    /\ target_concurrency = decision.target - 1

\* the hill-climb rule has just raised the target from the one best level
C23_AtBest ==
    /\ decision.path = "climb"
    /\ HighestAverage(throughput_history) = {decision.target}
    /\ target_concurrency = decision.target + 1

\* the hill-climb rule has just raised the target towards a higher best level
C23_BelowBest ==
    /\ decision.path = "climb"
    /\ Cardinality(HighestAverage(throughput_history)) = 1
    /\ \A best \in HighestAverage(throughput_history) : decision.target < best
    /\ target_concurrency = decision.target + 1

-----------------------------------------------------------------------------
\* C24: no step raises the target by more than 1; a step that lowers it by
\* more than 1 is a decision on a window with traffic whose error rate is
\* above 0.1; every other decision moves the target by -1, 0 or +1.
C24_StepSizes ==
    [][/\ target_concurrency' <= target_concurrency + 1
       /\ target_concurrency' < target_concurrency - 1 =>
              DecisionStep /\ HighErrorWindow
       /\ ~HighErrorWindow =>
              target_concurrency' - target_concurrency \in {-1, 0, 1}]_vars

\* a contraction has just lowered the target by more than 1, and an earlier
\* decision of the run had raised it by 1
C24_Witness ==
    /\ decision.path = "contract"
    /\ target_concurrency < decision.target - 1
    /\ Len(throughput_history) > 0
    /\ throughput_history[1][1] < decision.target

\* the hill-climb rule has just lowered the target by exactly 1
C24_SingleStepDown ==
    /\ decision.path = "climb"
    /\ target_concurrency = decision.target - 1

-----------------------------------------------------------------------------
\* C25: the history never holds more than 30 samples, and every decision on
\* a window with traffic and an error rate of at most 0.1 appends exactly one
\* sample, the target before the adjustment paired with successes / elapsed
\* of the window, dropping the oldest sample when 30 are held already.
WindowSample == <<target_concurrency, (success_count * TScale) \div elapsed>>

C25_ThroughputHistory ==
    /\ [](Len(throughput_history) <= 30)
    /\ [][DecisionStep /\ CleanWindow =>
             throughput_history' =
                 IF Len(throughput_history) < 30
                 THEN Append(throughput_history, WindowSample)
                 ELSE Append(Tail(throughput_history), WindowSample)]_vars

\* a decision found 30 samples in the history and appended its own: the
\* history still holds 30 and ends with the sample of that window
C25_Witness ==
    /\ decision.path = "climb"
    /\ decision.samples = 30
    /\ Len(throughput_history) = 30
    /\ throughput_history[30] =
           <<decision.target, (decision.successes * TScale) \div decision.elapsed>>

-----------------------------------------------------------------------------
\* C26: no item ever has more than one report, and every admitted item that
\* has released its slot (returned, raised or was cancelled after its
\* admission) has exactly one, a success or an error; so an item saved by
\* its second or third cycle has one success and no error.
Released(u) ==
    \/ pc[u] \in {"saved", "abandoned", "invalid", "raised"}
    \/ pc[u] = "cancelled" /\ log[u].attempts > 0

C26_OneOutcome ==
    \A u \in Urls :
        /\ log[u].ok + log[u].err <= 1
        /\ Released(u) => log[u].ok + log[u].err = 1

-----------------------------------------------------------------------------
\* C27: an item whose success is reported has its record written; it is in
\* its politeness delay only with the success reported; it has released its
\* slot only by returning after the politeness delay with its page closed;
\* and the successes reported in the run never exceed the writes of the run.
RECURSIVE SumOver(_, _)
SumOver(f, S) ==
    IF S = {} THEN 0
    ELSE LET x == CHOOSE y \in S : TRUE IN f[x] + SumOver(f, S \ {x})

SuccessesReported == SumOver([u \in Urls |-> log[u].ok], Urls)

C27_SuccessOrder ==
    /\ \A u \in Urls :
          /\ log[u].ok > 0 => writes[car_id[u]] > 0
          /\ pc[u] = "polite" => log[u].ok = 1
          /\ log[u].ok > 0 /\ Released(u) => pc[u] = "saved" /\ page[u] = "closed"
    /\ SuccessesReported <= SumOver(writes, Ids)

-----------------------------------------------------------------------------
\* C28: every marker the retry pass resolves was read while the view showed
\* the page of that marker; PAGE::1 in particular is resolved from the first
\* listing page only, wherever it stands in the marker file.
C28_RetryFromShownPage == \A p \in call.scraped : p[1] = p[2]

-----------------------------------------------------------------------------
\* C29: a harvest that found no page count control reads page 1 and no other
\* page, and ends by writing the discovery file with the URLs it read there;
\* a harvest that found the control but no page count in it ends without
\* reading a page and leaves both files as they were, the discovery file
\* absent.
HarvestEnded == call.fn = "harvest" /\ s_pc = "idle" /\ call.result # "running"

C29_PageCountResolution ==
    /\ call.fn = "harvest" /\ call.count = "count_absent" =>
          /\ call.scraped \subseteq {<<1, 1>>}
          /\ HarvestEnded =>
                 /\ call.result = "saved"
                 /\ urls_file.exists
                 /\ urls_file.data =
                        IF call.scraped = {} THEN call.part ELSE PageUrls(1)
    /\ call.fn = "harvest" /\ call.count = "count_bad" =>
          /\ call.result = "aborted"
          /\ call.scraped = {} /\ call.part = {}
          /\ ~urls_file.exists
          /\ failed_file = call.failed

-----------------------------------------------------------------------------
\* C30: whenever the tasks are suspended the lock of the manager is free, so
\* a worker that is to report (the cycle that ends, the last failed cycle, a
\* URL without id at its admission) and the decision loop whose sleep is
\* over can each take their step at once: neither waits for the lock and
\* they cannot block each other on it.
C30_LockNeverBlocks ==
    /\ lock = "free"
    /\ Alive =>
          /\ \A u \in Urls :
                /\ pc[u] = "fetching" =>
                       /\ ENABLED CycleSucceeds(u)
                       /\ ENABLED CycleFails(u, "fetch")
                /\ pc[u] = "queued" /\ sem_value > 0 => ENABLED Admit(u)
          /\ elapsed >= DwellTime => ENABLED AdjusterAdjusts

\* the decision loop has used the lock for a decision on reported outcomes,
\* a worker has used it again for a later report and is in its politeness
\* delay, and the run goes on
C30_Witness ==
    /\ lock = "free"
    /\ main_state = "running"
    /\ decision.path \in {"contract", "probe", "climb"}
    /\ decision.successes + decision.errors > 0
    /\ success_count + error_count > 0
    /\ \E u \in Urls : pc[u] = "polite"

-----------------------------------------------------------------------------
\* C31: the backoff sleeps of an item are 3, 5, ... seconds, the sleep after
\* the failed cycle with index i being 3 + 2 i, each longer than the one
\* before; every cycle after the first is preceded by one sleep, there are
\* at most two sleeps and exactly two when the error of the item is
\* reported (none after the last cycle), and an item in its backoff sleep is
\* inside the admission gate, counted in the permits taken.
C31_Backoff ==
    \A u \in Urls :
        LET slept == log[u].slept
        IN  /\ Len(slept) <= 2
            /\ pc[u] = "fetching" => Len(slept) = attempt[u]
            /\ \A i \in 1..Len(slept) : slept[i] = 3 + 2 * (i - 1)
            /\ \A i \in 1..(Len(slept) - 1) : slept[i] < slept[i + 1]
            /\ log[u].err > 0 /\ car_id[u] # 0 => slept = <<3, 5>>
            /\ pc[u] = "backoff" =>
                   /\ Len(slept) = attempt[u] + 1
                   /\ slept[Len(slept)] = 3 + 2 * attempt[u]
                   /\ pc[u] \in Active
                   /\ sem_value = max - Holding

\* an item is in its second backoff sleep, of 5 seconds after one of 3
C31_Witness ==
    \E u \in Urls :
        /\ pc[u] = "backoff"
        /\ attempt[u] = 1
        /\ log[u].slept = <<3, 5>>
        /\ sem_value < max

-----------------------------------------------------------------------------
\* C32: the progress reporter has been called for exactly those completion
\* counts reached so far that are a multiple of 10 or the number of items to
\* process, once each; and a run that is over and has completed an item has
\* called it at least once.
CountsDue == {c \in 1..completed_count : c % 10 = 0 \/ c = Remaining}

C32_ProgressCadence ==
    /\ Range(progress) = CountsDue
    /\ Len(progress) = Cardinality(CountsDue)
    /\ main_state \in {"done", "aborted"} /\ completed_count > 0 =>
           progress # <<>>

-----------------------------------------------------------------------------
\* C33: the items inside the admission gate are never more than max, and the
\* free permits are max minus those items; an item has left the gate, by any
\* of its exits, only with no page of its own left open; and when the run is
\* over every permit is back and no page is open.
PageLeftOpen(u) == page[u] = "open"

C33_BoundedInFlight ==
    /\ Holding <= max
    /\ main_state = "running" => sem_value = max - Holding
    /\ \A u \in Urls : pc[u] \in Terminal => ~PageLeftOpen(u)
    /\ main_state \in {"done", "aborted"} =>
           /\ sem_value = max
           /\ \A u \in Urls : ~PageLeftOpen(u)

-----------------------------------------------------------------------------
\* C34: between two runs of the listing script, when the discovery file
\* exists every listing page of the site either has all its URLs in the
\* discovery file or has its marker in the marker file.
PageAccounted(p) ==
    \/ PageUrls(p) \subseteq urls_file.data
    \/ failed_file.exists /\ p \in Range(failed_file.data)

C34_NoPageLost ==
    s_pc = "idle" /\ urls_file.exists =>
        \A p \in 1..site_pages : PageAccounted(p)

-----------------------------------------------------------------------------
\* C35: at every moment the reports made so far equal the reports read by
\* past decisions plus the two counters, so none is lost; a decision reads
\* exactly the counters, which then hold every report no decision has read
\* yet, and leaves them at 0, so a report is read by the first decision that
\* follows it and by no other; no other step lowers a counter.
ReportsMade == SumOver([u \in Urls |-> log[u].ok + log[u].err], Urls)

C35_ReportsAccounted ==
    /\ [](ReportsMade = consumed + success_count + error_count)
    /\ [][DecisionStep =>
             /\ consumed' = consumed + success_count + error_count
             /\ consumed' = ReportsMade
             /\ success_count' = 0
             /\ error_count' = 0]_vars
    /\ [][~DecisionStep =>
             /\ consumed' = consumed
             /\ success_count' >= success_count
             /\ error_count' >= error_count]_vars

\* a decision has read one report, a later report is in the counters
C35_Witness ==
    /\ consumed > 0
    /\ decision.successes + decision.errors > 0
    /\ success_count + error_count > 0
    /\ ReportsMade = consumed + success_count + error_count

-----------------------------------------------------------------------------
\* C36: a retry pass that has markers to retry can fail to reach the listing
\* root or its search button; whenever it does, it returns with the discovery
\* file and the marker file as they were, and no step outside the marker
\* loop of a pass removes a marker, so the markers are there for the next
\* pass.
HasMarkers == failed_file.exists /\ failed_file.data # <<>>

RetryStopsAtRoot == s_pc = "retry" /\ HasMarkers /\ s_pc' = "harvest"

C36_RootFailureKeepsFiles ==
    /\ [](s_pc = "retry" /\ HasMarkers =>
              ENABLED (RetryRootFails /\ RetryStopsAtRoot))
    /\ [][RetryStopsAtRoot => /\ urls_file' = urls_file
                              /\ failed_file' = failed_file]_vars
    /\ [][s_pc # "retry_pages" =>
              Markers(failed_file) \subseteq Markers(failed_file')]_vars

\* a pass of a later run has returned at the root with markers on file
C36_Witness ==
    /\ s_pc = "harvest"
    /\ call = Entered("harvest")
    /\ view = 0
    /\ HasMarkers
    /\ runs >= 2

-----------------------------------------------------------------------------
\* C37: a URL without id is kept by the filter of every run, never starts a
\* fetch cycle, opens no page and holds no permit, reports no success and at
\* most one error, and has reported exactly one error when the run is over;
\* no record is written under an id that no URL of the input carries.
NoId(u) == car_id[u] = 0

OrphanIds == {i \in Ids : \A u \in Urls : car_id[u] # i}

====
